---- MODULE Spec2Model ----
(***************************************************************************)
(* Model of optimize_data.py: read stops.txt (a JSON array of stop         *)
(* records), project every record to the five short keys i, n, l, o, c,    *)
(* write the result compactly to stops_lite.json and print a size report;  *)
(* any exception is caught at the top level and printed as "Error: ...".   *)
(*                                                                         *)
(* JSON values are tagged records.  A Python dict is an ordered sequence   *)
(* of <<key, value>> pairs with unique keys.  A file's content is the      *)
(* sequence of JSON tokens it holds, which is also the granularity at      *)
(* which json.dump hands chunks to the file object.                        *)
(***************************************************************************)
EXTENDS Integers, Sequences, FiniteSets, TLC

VARIABLES pc, stops_txt, stops_lite, prior_lite, data, it, stop,
          lite_data, wpos, stdout, e

vars == <<pc, stops_txt, stops_lite, prior_lite, data, it, stop,
          lite_data, wpos, stdout, e>>

(* Longest input array the model enumerates. *)
MaxLen == 2

-----------------------------------------------------------------------------
(* JSON / Python values *)

Str(s) == [t |-> "str", s |-> s]

Num(n) == [t |-> "num", n |-> n]

Null == [t |-> "null"]

Obj(pairs) == [t |-> "obj", o |-> pairs]

Arr(items) == [t |-> "arr", a |-> items]

(* A structural token of the JSON text: one of [ ] { } , :  *)
P(c) == [t |-> "p", p |-> c]

(* A name that has not been assigned yet. *)
Unbound == [t |-> "unbound"]

(* No exception is being handled. *)
NoException == [cls |-> "None", msg |-> ""]

Raise(cls, msg) == [raised |-> TRUE, exc |-> [cls |-> cls, msg |-> msg]]

Return(v) == [raised |-> FALSE, v |-> v]

-----------------------------------------------------------------------------
(* dict operations *)

Keys(pairs) == {pairs[k][1] : k \in 1..Len(pairs)}

Lookup(pairs, key) == pairs[CHOOSE k \in 1..Len(pairs) : pairs[k][1] = key][2]

(* d[key] = v : replaces the value of an existing key, else appends. *)
DictSet(pairs, key, v) ==
    IF key \in Keys(pairs)
    THEN [k \in 1..Len(pairs) |-> IF pairs[k][1] = key THEN <<key, v>> ELSE pairs[k]]
    ELSE Append(pairs, <<key, v>>)

(* stop[key] : KeyError on a dict without the key, TypeError on anything  *)
(* that is not a dict (str, list, int and None do not take a str index).  *)
GetItem(v, key) ==
    IF v.t = "obj"
    THEN IF key \in Keys(v.o) THEN Return(Lookup(v.o, key))
         ELSE Raise("KeyError", key)
    ELSE Raise("TypeError", v.t)

(* stop.get(key, default) : the stored value when the key is present,     *)
(* whatever it is, and the default only when the key is absent.           *)
DictGet(v, key, default) ==
    IF key \in Keys(v.o) THEN Lookup(v.o, key) ELSE default

(* iter(data) : a list yields its elements, a dict its keys, a str its    *)
(* characters (the model's top-level strings have at most one character); *)
(* a number or None is not iterable.                                      *)
Iter(v) ==
    CASE v.t = "arr" -> Return(v.a)
      [] v.t = "obj" -> Return([k \in 1..Len(v.o) |-> Str(v.o[k][1])])
      [] v.t = "str" -> Return(IF v.s = "" THEN <<>> ELSE <<Str(v.s)>>)
      [] OTHER -> Raise("TypeError", v.t)

-----------------------------------------------------------------------------
(* json.dump(lite_data, f, separators=(',', ':')) : the encoder yields the *)
(* text in chunks and each chunk is written to the file on its own.  An    *)
(* empty container is the single chunk [] or {}; an atom inside a list is  *)
(* yielded together with the bracket or comma before it; everything else   *)
(* is one token per chunk.  No whitespace token exists: the separators are *)
(* the bare , and : characters.                                            *)

RECURSIVE IterEncode(_), EncodeList(_, _, _), EncodeDict(_, _)

IterEncode(v) ==
    CASE v.t = "arr" ->
            IF Len(v.a) = 0 THEN << <<P("["), P("]")>> >>
            ELSE EncodeList(v.a, 1, <<P("[")>>) \o << <<P("]")>> >>
      [] v.t = "obj" ->
            IF Len(v.o) = 0 THEN << <<P("{"), P("}")>> >>
            ELSE << <<P("{")>> >> \o EncodeDict(v.o, 1) \o << <<P("}")>> >>
      [] OTHER -> << <<v>> >>

EncodeList(items, k, buf) ==
    IF k > Len(items) THEN <<>>
    ELSE (IF items[k].t \in {"arr", "obj"}
          THEN <<buf>> \o IterEncode(items[k])
          ELSE << buf \o <<items[k]>> >>)
         \o EncodeList(items, k + 1, <<P(",")>>)

EncodeDict(pairs, k) ==
    IF k > Len(pairs) THEN <<>>
    ELSE (IF k = 1 THEN <<>> ELSE << <<P(",")>> >>)
         \o << <<Str(pairs[k][1])>>, <<P(":")>> >>
         \o IterEncode(pairs[k][2])
         \o EncodeDict(pairs, k + 1)

RECURSIVE Flatten(_)

(* The text that results from writing all the chunks in order. *)
Flatten(chunks) ==
    IF Len(chunks) = 0 THEN <<>> ELSE Head(chunks) \o Flatten(Tail(chunks))

-----------------------------------------------------------------------------
(* json.load(f) : a recursive-descent parse of the whole text; anything    *)
(* that is not exactly one JSON value raises JSONDecodeError.              *)

RECURSIVE ParseValue(_, _), ParseElements(_, _, _), ParseMembers(_, _, _)

ParseFail == [ok |-> FALSE]

ParseValue(toks, i) ==
    IF i > Len(toks) THEN ParseFail
    ELSE IF toks[i].t = "p"
         THEN IF toks[i].p = "["
              THEN IF i + 1 <= Len(toks) /\ toks[i + 1] = P("]")
                   THEN [ok |-> TRUE, v |-> Arr(<<>>), i |-> i + 2]
                   ELSE ParseElements(toks, i + 1, <<>>)
              ELSE IF toks[i].p = "{"
                   THEN IF i + 1 <= Len(toks) /\ toks[i + 1] = P("}")
                        THEN [ok |-> TRUE, v |-> Obj(<<>>), i |-> i + 2]
                        ELSE ParseMembers(toks, i + 1, <<>>)
                   ELSE ParseFail
         ELSE [ok |-> TRUE, v |-> toks[i], i |-> i + 1]

ParseElements(toks, i, acc) ==
    LET r == ParseValue(toks, i) IN
    IF ~r.ok \/ r.i > Len(toks) THEN ParseFail
    ELSE IF toks[r.i] = P(",") THEN ParseElements(toks, r.i + 1, Append(acc, r.v))
    ELSE IF toks[r.i] = P("]") THEN [ok |-> TRUE, v |-> Arr(Append(acc, r.v)), i |-> r.i + 1]
    ELSE ParseFail

ParseMembers(toks, i, acc) ==
    IF i + 1 > Len(toks) \/ toks[i].t # "str" \/ toks[i + 1] # P(":") THEN ParseFail
    ELSE LET r == ParseValue(toks, i + 2) IN
         IF ~r.ok \/ r.i > Len(toks) THEN ParseFail
         ELSE IF toks[r.i] = P(",")
              THEN ParseMembers(toks, r.i + 1, DictSet(acc, toks[i].s, r.v))
         ELSE IF toks[r.i] = P("}")
              THEN [ok |-> TRUE, v |-> Obj(DictSet(acc, toks[i].s, r.v)), i |-> r.i + 1]
         ELSE ParseFail

json_load(toks) ==
    LET r == ParseValue(toks, 1) IN
    IF r.ok /\ r.i = Len(toks) + 1 THEN Return(r.v)
    ELSE Raise("JSONDecodeError", "Expecting value")

-----------------------------------------------------------------------------
(* os.path.getsize and the {:.2f} megabyte figure of the report *)

StrLen(s) ==
    CASE s = "" -> 0
      [] s \in {"7", "x", "a", "i", "n", "l", "o", "c"} -> 1
      [] s = "42" -> 2
      [] s \in {"lat", "lon", "old"} -> 3
      [] s \in {"name", "zone"} -> 4
      [] s = "Lisboa" -> 6
      [] s \in {"stop_id", "Main St"} -> 7
      [] s = "locality" -> 8

RECURSIVE Digits(_)

Digits(n) == IF n < 0 THEN 1 + Digits(-n) ELSE IF n < 10 THEN 1 ELSE 1 + Digits(n \div 10)

TokenBytes(tk) ==
    CASE tk.t = "p" -> 1
      [] tk.t = "str" -> StrLen(tk.s) + 2
      [] tk.t = "num" -> Digits(tk.n)
      [] tk.t = "null" -> 4

RECURSIVE getsize(_)

getsize(toks) == IF Len(toks) = 0 THEN 0 ELSE TokenBytes(Head(toks)) + getsize(Tail(toks))

(* size/1024/1024 formatted with two decimals, in hundredths of a MB. *)
MB2f(bytes) == (bytes * 200 + 1048576) \div 2097152

ReportLine(label, bytes) == [label |-> label, mb |-> MB2f(bytes)]

ErrorLine(exc) == [label |-> "Error", msg |-> exc.msg]

-----------------------------------------------------------------------------
(* Variants of the loop body with a slip in them, used to show that the   *)
(* properties below depend on the projection as it is written.            *)

(* every field read with dict.get, so a missing field becomes null *)
ProjectLenient(s) ==
    IF s.t # "obj" THEN Raise("TypeError", s.t)
    ELSE Return(Obj(<< <<"i", DictGet(s, "stop_id", Null)>>, <<"n", DictGet(s, "name", Null)>>,
                       <<"l", DictGet(s, "lat", Null)>>, <<"o", DictGet(s, "lon", Null)>>,
                       <<"c", DictGet(s, "locality", Str(""))>> >>))

(* latitude and longitude exchanged *)
ProjectSwapped(s) ==
    LET i == GetItem(s, "stop_id")
        n == GetItem(s, "name")
        l == GetItem(s, "lat")
        o == GetItem(s, "lon")
    IN  IF i.raised THEN i
        ELSE IF n.raised THEN n
        ELSE IF l.raised THEN l
        ELSE IF o.raised THEN o
        ELSE Return(Obj(<< <<"i", i.v>>, <<"n", n.v>>, <<"l", o.v>>, <<"o", l.v>>,
                           <<"c", DictGet(s, "locality", Str(""))>> >>))

(* c written only when the record has a locality *)
ProjectNoDefault(s) ==
    LET i == GetItem(s, "stop_id")
        n == GetItem(s, "name")
        l == GetItem(s, "lat")
        o == GetItem(s, "lon")
    IN  IF i.raised THEN i
        ELSE IF n.raised THEN n
        ELSE IF l.raised THEN l
        ELSE IF o.raised THEN o
        ELSE Return(Obj(<< <<"i", i.v>>, <<"n", n.v>>, <<"l", l.v>>, <<"o", o.v>> >>
                        \o (IF "locality" \in Keys(s.o)
                            THEN << <<"c", Lookup(s.o, "locality")>> >> ELSE <<>>)))

(* The body of the loop: the dict literal of lines 11-17.  The four        *)
(* subscriptions are evaluated in order and the first that raises ends     *)
(* the evaluation; locality is read with dict.get and default ''.          *)

Project(s) ==
    LET i == GetItem(s, "stop_id")
        n == GetItem(s, "name")
        l == GetItem(s, "lat")
        o == GetItem(s, "lon")
    IN  IF i.raised THEN i
        ELSE IF n.raised THEN n
        ELSE IF l.raised THEN l
        ELSE IF o.raised THEN o
        ELSE Return(Obj(<< <<"i", i.v>>, <<"n", n.v>>, <<"l", l.v>>, <<"o", o.v>>,
                           <<"c", DictGet(s, "locality", Str(""))>> >>))

(* lite_data.insert(0, x) in place of append *)
ListPrepend(lst, x) == <<x>> \o lst

(* lite_data.append(x) *)
ListAppend(lst, x) == Append(lst, x)

-----------------------------------------------------------------------------
(* The inputs the model enumerates *)

RequiredKeys == <<"stop_id", "name", "lat", "lon">>

StopIds == {"7", "42"}

(* locality: key absent, key present with null, key present with a string *)
Localities == {Unbound, Null, Str("Lisboa")}

StopRecord(id, loc, extra) ==
    Obj(<< <<"stop_id", Str(id)>>, <<"name", Str("Main St")>>,
           <<"lat", Num(40)>>, <<"lon", Num(-73)>> >>
        \o (IF loc = Unbound THEN <<>> ELSE << <<"locality", loc>> >>)
        \o (IF extra THEN << <<"zone", Str("a")>> >> ELSE <<>>))

Without(v, key) ==
    Obj(SelectSeq(v.o, LAMBDA kv : kv[1] # key))

FullStops ==
    {StopRecord(id, loc, FALSE) : id \in StopIds, loc \in Localities}
        \cup {StopRecord("7", Str("Lisboa"), TRUE)}

MissingStops ==
    {Without(StopRecord("7", Unbound, FALSE), RequiredKeys[k]) : k \in 1..4}

NonObjects == {Num(5), Str("x")}

Elements == FullStops \cup MissingStops \cup NonObjects

Arrays == UNION {{Arr(a) : a \in [1..n -> Elements]} : n \in 0..MaxLen}

NonArrays == {Obj(<<>>), Obj(<< <<"a", Num(5)>> >>), Str(""), Str("x"), Num(5), Null}

File(toks) == [exists |-> TRUE, content |-> toks]

NoFile == [exists |-> FALSE, content |-> <<>>]

(* stops.txt: missing, holding one JSON value, or holding text that is    *)
(* not JSON (an empty file, an unterminated array).                       *)
InputFiles ==
    {NoFile} \cup {File(Flatten(IterEncode(v))) : v \in Arrays \cup NonArrays}
             \cup {File(<<>>), File(<<P("[")>>)}

(* stops_lite.json before the run: missing, or left by an earlier run. *)
OutputFiles ==
    {NoFile,
     File(Flatten(IterEncode(Arr(<<Obj(<< <<"i", Str("old")>> >>)>>))))}

Init ==
    /\ pc = "open_in"
    /\ stops_txt \in InputFiles
    /\ stops_lite \in OutputFiles
    /\ prior_lite = stops_lite
    /\ data = Unbound
    /\ it = 0
    /\ stop = Unbound
    /\ lite_data = <<>>
    /\ wpos = 0
    /\ stdout = <<>>
    /\ e = NoException

-----------------------------------------------------------------------------
(* The steps of the module body *)

(* Control leaves the try block with exception exc. *)
Throw(exc) == pc' = "except" /\ e' = exc

(* Variant: the output file is opened for writing before the input. *)
OpenInputAfterOutput ==
    /\ pc = "open_in"
    /\ \E denied \in BOOLEAN :
         IF ~stops_txt.exists
         THEN Throw([cls |-> "FileNotFoundError", msg |-> "stops.txt"])
         ELSE IF denied
         THEN Throw([cls |-> "PermissionError", msg |-> "stops.txt"])
         ELSE pc' = "load" /\ e' = e
    /\ stops_lite' = File(<<>>)
    /\ UNCHANGED <<stops_txt, prior_lite, data, it, stop, lite_data, wpos, stdout>>

(* line 5: open('stops.txt', 'r') *)
OpenInput ==
    /\ pc = "open_in"
    /\ \E denied \in BOOLEAN :
         IF ~stops_txt.exists
         THEN Throw([cls |-> "FileNotFoundError", msg |-> "stops.txt"])
         ELSE IF denied
         THEN Throw([cls |-> "PermissionError", msg |-> "stops.txt"])
         ELSE pc' = "load" /\ e' = e
    /\ UNCHANGED <<stops_txt, stops_lite, prior_lite, data, it, stop,
                   lite_data, wpos, stdout>>

(* lines 6 and 9: data = json.load(f); lite_data = [] *)
LoadJson ==
    /\ pc = "load"
    /\ LET r == json_load(stops_txt.content) IN
         IF r.raised
         THEN Throw(r.exc) /\ UNCHANGED <<data, it, lite_data>>
         ELSE /\ data' = r.v
              /\ lite_data' = <<>>
              /\ it' = 1
              /\ pc' = "for"
              /\ e' = e
    /\ UNCHANGED <<stops_txt, stops_lite, prior_lite, stop, wpos, stdout>>

(* line 10: for stop in data *)
ForIter ==
    /\ pc = "for"
    /\ LET items == Iter(data) IN
         IF items.raised
         THEN Throw(items.exc) /\ UNCHANGED <<it, stop>>
         ELSE IF it > Len(items.v)
         THEN pc' = "open_out" /\ UNCHANGED <<it, stop, e>>
         ELSE /\ stop' = items.v[it]
              /\ it' = it + 1
              /\ pc' = "body"
              /\ e' = e
    /\ UNCHANGED <<stops_txt, stops_lite, prior_lite, data, lite_data, wpos, stdout>>

(* Variant: the output file is opened inside the loop. *)
BodyOpeningOutput ==
    /\ pc = "body"
    /\ LET r == Project(stop) IN
         IF r.raised
         THEN Throw(r.exc) /\ UNCHANGED lite_data
         ELSE /\ lite_data' = ListAppend(lite_data, r.v)
              /\ pc' = "for"
              /\ e' = e
    /\ stops_lite' = File(<<>>)
    /\ UNCHANGED <<stops_txt, prior_lite, data, it, stop, wpos, stdout>>

(* lines 11-17: lite_data.append({...}) *)
Body ==
    /\ pc = "body"
    /\ LET r == Project(stop) IN
         IF r.raised
         THEN Throw(r.exc) /\ UNCHANGED lite_data
         ELSE /\ lite_data' = ListAppend(lite_data, r.v)
              /\ pc' = "for"
              /\ e' = e
    /\ UNCHANGED <<stops_txt, stops_lite, prior_lite, data, it, stop, wpos, stdout>>

(* line 19: open('stops_lite.json', 'w') creates or truncates the file *)
OpenOutput ==
    /\ pc = "open_out"
    /\ \E denied \in BOOLEAN :
         IF denied
         THEN /\ Throw([cls |-> "PermissionError", msg |-> "stops_lite.json"])
              /\ UNCHANGED <<stops_lite, wpos>>
         ELSE /\ stops_lite' = File(<<>>)
              /\ wpos' = 1
              /\ pc' = "dump"
              /\ e' = e
    /\ UNCHANGED <<stops_txt, prior_lite, data, it, stop, lite_data, stdout>>

(* line 20: json.dump writes the next chunk; a failed write (disk full)   *)
(* leaves what was written so far, the with block closes the file.        *)
(* The file object buffers, so on disk the text grows at flushes rather   *)
(* than at every chunk; each content reached here is a prefix of the full *)
(* text, as is every content the buffered file can show.                  *)
DumpChunk ==
    /\ pc = "dump"
    /\ wpos <= Len(IterEncode(Arr(lite_data)))
    /\ \E full \in BOOLEAN :
         IF full
         THEN /\ Throw([cls |-> "OSError", msg |-> "No space left on device"])
              /\ UNCHANGED <<stops_lite, wpos>>
         ELSE /\ stops_lite' = File(stops_lite.content \o IterEncode(Arr(lite_data))[wpos])
              /\ wpos' = wpos + 1
              /\ pc' = "dump"
              /\ e' = e
    /\ UNCHANGED <<stops_txt, prior_lite, data, it, stop, lite_data, stdout>>

(* end of the with block of lines 19-20: the file is closed *)
CloseOutput ==
    /\ pc = "dump"
    /\ wpos > Len(IterEncode(Arr(lite_data)))
    /\ pc' = "report1"
    /\ UNCHANGED <<stops_txt, stops_lite, prior_lite, data, it, stop,
                   lite_data, wpos, stdout, e>>

(* line 22: the f-string calls os.path.getsize('stops.txt') before print *)
ReportOriginal ==
    /\ pc = "report1"
    /\ \E gone \in BOOLEAN :
         IF gone
         THEN Throw([cls |-> "FileNotFoundError", msg |-> "stops.txt"]) /\ UNCHANGED stdout
         ELSE /\ stdout' = Append(stdout,
                     ReportLine("Optimization complete. Original size", getsize(stops_txt.content)))
              /\ pc' = "report2"
              /\ e' = e
    /\ UNCHANGED <<stops_txt, stops_lite, prior_lite, data, it, stop, lite_data, wpos>>

(* line 23: the f-string calls os.path.getsize('stops_lite.json') *)
ReportNew ==
    /\ pc = "report2"
    /\ \E gone \in BOOLEAN :
         IF gone
         THEN Throw([cls |-> "FileNotFoundError", msg |-> "stops_lite.json"]) /\ UNCHANGED stdout
         ELSE /\ stdout' = Append(stdout, ReportLine("New size", getsize(stops_lite.content)))
              /\ pc' = "done"
              /\ e' = e
    /\ UNCHANGED <<stops_txt, stops_lite, prior_lite, data, it, stop, lite_data, wpos>>

(* lines 25-26: except Exception as e: print(f"Error: {e}") *)
Except ==
    /\ pc = "except"
    /\ stdout' = Append(stdout, ErrorLine(e))
    /\ pc' = "done"
    /\ UNCHANGED <<stops_txt, stops_lite, prior_lite, data, it, stop, lite_data, wpos, e>>

Next ==
    \/ OpenInput
    \/ LoadJson
    \/ ForIter
    \/ Body
    \/ OpenOutput
    \/ DumpChunk
    \/ CloseOutput
    \/ ReportOriginal
    \/ ReportNew
    \/ Except

Spec == Init /\ [][Next]_vars

-----------------------------------------------------------------------------
(* Vocabulary of the properties *)

(* The run ended without an exception: both report lines were reached. *)
Success == pc = "done" /\ e = NoException

(* The run ended in the except clause. *)
Failure == pc = "done" /\ e # NoException

(* What a reader of stops.txt / stops_lite.json gets back. *)
InputValue == json_load(stops_txt.content)

OutputValue == json_load(stops_lite.content)

InputIsArray == stops_txt.exists /\ ~InputValue.raised /\ InputValue.v.t = "arr"

HasRequired(v) == \A k \in 1..4 : RequiredKeys[k] \in Keys(v.o)

(* stops.txt holds an array whose elements are all complete stop records. *)
InputIsValid ==
    /\ InputIsArray
    /\ \A k \in 1..Len(InputValue.v.a) :
          InputValue.v.a[k].t = "obj" /\ HasRequired(InputValue.v.a[k])

(* stops_lite.json holds an array of objects, one per element of the input array. *)
OutputMatchesInputShape ==
    /\ InputIsArray
    /\ stops_lite.exists
    /\ ~OutputValue.raised
    /\ OutputValue.v.t = "arr"
    /\ Len(OutputValue.v.a) = Len(InputValue.v.a)
    /\ \A k \in 1..Len(OutputValue.v.a) : OutputValue.v.a[k].t = "obj"

In(k) == InputValue.v.a[k]

Out(k) == OutputValue.v.a[k]

IsReportLine(line) == line.label \in {"Optimization complete. Original size", "New size"}

NoReportLine == \A k \in 1..Len(stdout) : ~IsReportLine(stdout[k])

OneErrorLine == Len(stdout) = 1 /\ stdout[1].label = "Error"

(* 1 Load, 2 Project-All, 3 Write, 4 Report, 5 ended or handling an exception *)
Stage(p) ==
    CASE p \in {"open_in", "load"} -> 1
      [] p \in {"for", "body"} -> 2
      [] p \in {"open_out", "dump"} -> 3
      [] p \in {"report1", "report2"} -> 4
      [] OTHER -> 5

(* The input has been read and every item of it has been projected. *)
AllProjected ==
    /\ data # Unbound
    /\ ~Iter(data).raised
    /\ Len(lite_data) = Len(Iter(data).v)
    /\ it > Len(Iter(data).v)

-----------------------------------------------------------------------------
(* Properties *)

(* C1: for every input record the written c equals the record's locality  *)
(* when locality is present and not null, and equals "" both when the key  *)
(* is absent and when it is present with the value null.                   *)
C1_LocalityOrEmpty ==
    (Success /\ InputIsValid) =>
        /\ OutputMatchesInputShape
        /\ \A k \in 1..Len(InputValue.v.a) :
             /\ "c" \in Keys(Out(k).o)
             /\ Lookup(Out(k).o, "c") =
                  IF "locality" \in Keys(In(k).o) /\ Lookup(In(k).o, "locality") # Null
                  THEN Lookup(In(k).o, "locality")
                  ELSE Str("")

(* C2: the write is atomic: in every state stops_lite.json is either what  *)
(* it was before the run or the complete serialization of the whole        *)
(* projected sequence, never truncated or partly written.                  *)
C2_AtomicWrite ==
    \/ stops_lite = prior_lite
    \/ /\ AllProjected
       /\ stops_lite = File(Flatten(IterEncode(Arr(lite_data))))

(* C3: when some record of the input array lacks a required field, the    *)
(* output file is never created or modified, no report line is printed,    *)
(* and the run ends in Failure with the error message printed.             *)
C3_MissingFieldFails ==
    (InputIsArray /\ \E k \in 1..Len(InputValue.v.a) : In(k).t = "obj" /\ ~HasRequired(In(k))) =>
        /\ stops_lite = prior_lite
        /\ NoReportLine
        /\ pc = "done" => (Failure /\ OneErrorLine)

C3_Witness ==
    /\ pc = "done"
    /\ prior_lite.exists
    /\ InputIsArray
    /\ Len(InputValue.v.a) >= 2
    /\ In(1).t = "obj" /\ HasRequired(In(1))
    /\ In(2).t = "obj" /\ "lat" \notin Keys(In(2).o)
    /\ e.cls = "KeyError"

(* C4: when the input parses but is not an array of objects, the run ends  *)
(* in Failure with an error message and no output file is written.         *)
C4_NotArrayOfObjectsFails ==
    (/\ stops_txt.exists
     /\ ~InputValue.raised
     /\ \/ InputValue.v.t # "arr"
        \/ \E k \in 1..Len(InputValue.v.a) : In(k).t # "obj") =>
        /\ stops_lite = prior_lite
        /\ pc = "done" => (Failure /\ OneErrorLine)

(* C5: a run ends either in Success with exactly the two report lines and  *)
(* no Error line, or in Failure with exactly one line, the Error line,     *)
(* wherever the failure occurred.                                          *)
C5_TwoTerminalStates ==
    pc = "done" =>
        \/ /\ e = NoException
           /\ Len(stdout) = 2
           /\ stdout[1].label = "Optimization complete. Original size"
           /\ stdout[2].label = "New size"
        \/ /\ e # NoException
           /\ OneErrorLine

(* C6: a successful run on a valid input of N records writes exactly N     *)
(* records, the k-th being the projection of the k-th input record.        *)
C6_LengthAndOrder ==
    (Success /\ InputIsValid) =>
        /\ OutputMatchesInputShape
        /\ \A k \in 1..Len(InputValue.v.a) :
             Out(k) = Project(In(k)).v

C6_Witness ==
    /\ Success
    /\ InputIsValid
    /\ Len(InputValue.v.a) >= 2
    /\ In(1) # In(2)
    /\ OutputMatchesInputShape

(* C7: in every written record i, n, l and o are the input record's        *)
(* stop_id, name, lat and lon, unchanged.                                  *)
C7_ValuesCopied ==
    (Success /\ InputIsValid) =>
        /\ OutputMatchesInputShape
        /\ \A k \in 1..Len(InputValue.v.a) :
             /\ {"i", "n", "l", "o"} \subseteq Keys(Out(k).o)
             /\ Lookup(Out(k).o, "i") = Lookup(In(k).o, "stop_id")
             /\ Lookup(Out(k).o, "n") = Lookup(In(k).o, "name")
             /\ Lookup(Out(k).o, "l") = Lookup(In(k).o, "lat")
             /\ Lookup(Out(k).o, "o") = Lookup(In(k).o, "lon")

C7_Witness ==
    /\ Success
    /\ InputIsValid
    /\ Len(InputValue.v.a) >= 1
    /\ OutputMatchesInputShape
    /\ Lookup(Out(1).o, "l") = Num(40)
    /\ Lookup(Out(1).o, "o") = Num(-73)

(* C8: every record of the written output has exactly the keys i, n, l,    *)
(* o, c, whatever other fields the input record carries.                   *)
C8_ExactKeySet ==
    Success =>
        /\ ~OutputValue.raised
        /\ OutputValue.v.t = "arr"
        /\ \A k \in 1..Len(OutputValue.v.a) :
             /\ Out(k).t = "obj"
             /\ Len(Out(k).o) = 5
             /\ Keys(Out(k).o) = {"i", "n", "l", "o", "c"}

C8_Witness ==
    /\ Success
    /\ InputIsValid
    /\ \E k \in 1..Len(InputValue.v.a) : "zone" \in Keys(In(k).o)
    /\ \E k \in 1..Len(InputValue.v.a) : "locality" \notin Keys(In(k).o)
    /\ Len(OutputValue.v.a) = Len(InputValue.v.a)

(* C9: when stops.txt does not exist the run ends in Failure with the      *)
(* single Error line and stops_lite.json is not created or modified.       *)
C9_MissingInputFails ==
    ~stops_txt.exists =>
        /\ stops_lite = prior_lite
        /\ NoReportLine
        /\ pc = "done" => (Failure /\ OneErrorLine)

C9_Witness ==
    /\ pc = "done"
    /\ ~stops_txt.exists
    /\ prior_lite.exists
    /\ e.cls = "FileNotFoundError"
    /\ Len(stdout) = 1

(* C10: the stages run in the order Load, Project-All, Write, Report: a    *)
(* step stays in its stage, moves to the next one, or leaves through the   *)
(* exception handler; the output file changes only in the Write stage and  *)
(* only once the input is read and every record projected; a report line   *)
(* is printed only in the Report stage with the whole output written.      *)
C10_StageOrder ==
    [][/\ Stage(pc') \in {Stage(pc), Stage(pc) + 1} \/ pc' = "except"
       /\ stops_lite' # stops_lite => (Stage(pc) = 3 /\ AllProjected)
       /\ (stdout' # stdout /\ pc # "except") =>
             /\ Stage(pc) = 4
             /\ AllProjected
             /\ stops_lite = File(Flatten(IterEncode(Arr(lite_data))))]_vars

C10_Witness ==
    /\ Success
    /\ Len(lite_data) >= 1
    /\ Len(stdout) = 2
    /\ stops_lite # prior_lite

====
